---- MODULE Spec2Model ----
(***************************************************************************)
(* A model of the GIS upload / geoprocessing back end (src/app.py and      *)
(* src/tools.py).                                                          *)
(*                                                                         *)
(* File names are sequences of one-character strings, so that lower(),     *)
(* endswith() and os.path.splitext() are computed and never assumed.  The  *)
(* scratch directory is a set of (name, content) entries on a              *)
(* case-sensitive file system.  An uploaded file is a stream that is read  *)
(* from its current position: what has been read once is not read again.   *)
(***************************************************************************)
EXTENDS Integers, Sequences, FiniteSets, TLC

VARIABLES
    pc,          \* position of the /upload handler
    files,       \* the batch: sequence of [name, content]
    consumed,    \* consumed[i]: the stream of files[i] has been read to its end
    tempDir,     \* the scratch directory: set of [name, content]
    dirExists,   \* the scratch directory exists
    idx,         \* index of the file the processing loop is at
    results,     \* the results list built so far
    response,    \* what the client received
    env,         \* os.environ['SHAPE_RESTORE_SHX'] (Unset when absent)
    lastCall,    \* history: the most recent process_shapefile call
    calls,       \* history: what this request saved, expanded and processed
    raster,      \* the raster handed to process_raster and what came out
    isect,       \* the /intersect request and what came out
    near,        \* the /near request and what came out
    scratch      \* the directories under uploads/ and the requests using them

vars == <<pc, files, consumed, tempDir, dirExists, idx, results, response,
          env, lastCall, calls, raster, isect, near, scratch>>

uploadVars == <<pc, files, consumed, tempDir, dirExists, idx, results,
                response, env, lastCall, calls>>

(***************************************************************************)
(* Bounds                                                                  *)
(***************************************************************************)
MaxFiles == 4
MaxPixels == 3      \* samples in a band
MaxSample == 5      \* largest sample value
MaxLayers == 3      \* files in one /intersect request
MaxFeatures == 2    \* features in a layer of a /near request
MaxCoord == 3       \* largest coordinate of a feature
MaxRequests == 2    \* requests in progress at once
MaxSaved == 2       \* files one request writes to its scratch directory

(***************************************************************************)
(* Strings                                                                 *)
(***************************************************************************)
UpperLetters == <<"A","B","C","D","E","F","G","H","I","J","K","L","M",
                  "N","O","P","Q","R","S","T","U","V","W","X","Y","Z">>
LowerLetters == <<"a","b","c","d","e","f","g","h","i","j","k","l","m",
                  "n","o","p","q","r","s","t","u","v","w","x","y","z">>

\* the lower-case letter of every upper-case letter
LowerTable ==
    [c \in {UpperLetters[i] : i \in 1..Len(UpperLetters)} |->
        LowerLetters[CHOOSE i \in 1..Len(UpperLetters) : UpperLetters[i] = c]]

LowerChar(c) == IF c \in DOMAIN LowerTable THEN LowerTable[c] ELSE c

\* str.lower()
Lower(s) == [i \in 1..Len(s) |-> LowerChar(s[i])]

\* str.endswith(suffix)
EndsWith(s, suf) ==
    /\ Len(suf) <= Len(s)
    /\ SubSeq(s, Len(s) - Len(suf) + 1, Len(s)) = suf

\* str.endswith((suffix, ...))
EndsWithAny(s, sufs) == \E suf \in sufs : EndsWith(s, suf)

\* os.path.splitext: the extension starts at the last dot, unless that dot
\* is one of the leading dots of the name.
LeadingDots(s) ==
    IF \A i \in 1..Len(s) : s[i] = "." THEN Len(s)
    ELSE (CHOOSE i \in 1..Len(s) : s[i] # "." /\ \A j \in 1..(i-1) : s[j] = ".") - 1

SplitExtAt(s) ==
    LET dots == {i \in (LeadingDots(s) + 1)..Len(s) : s[i] = "."}
    IN  IF dots = {} THEN Len(s) + 1
        ELSE CHOOSE i \in dots : \A j \in dots : j <= i

SplitExtRoot(s) == SubSeq(s, 1, SplitExtAt(s) - 1)

DotShp == <<".","s","h","p">>
DotShx == <<".","s","h","x">>
DotShxUpper == <<".","S","H","X">>
DotDbf == <<".","d","b","f">>
DotPrj == <<".","p","r","j">>
DotZip == <<".","z","i","p">>
DotTif == <<".","t","i","f">>
DotTiff == <<".","t","i","f","f">>

SeqRange(q) == {q[i] : i \in 1..Len(q)}

\* every ordering of a finite set, as sequences
Orderings(S) ==
    {s \in [1..Cardinality(S) -> S] : \A i, j \in 1..Cardinality(S) : s[i] = s[j] => i = j}

(***************************************************************************)
(* The uploads a client may send                                           *)
(***************************************************************************)
Unset == "unset"
EnvValues == {Unset, "YES", "NO"}

\* File contents: opaque bytes, nothing at all, bytes that are no archive,
\* or a zip archive with its (flat) members.
Bytes == [kind |-> "bytes", members |-> {}]
Empty == [kind |-> "empty", members |-> {}]
Corrupt == [kind |-> "corrupt", members |-> {}]
Archive(ms) == [kind |-> "archive", members |-> ms]

ArchiveMembers ==
    { [name |-> <<"c",".","s","h","p">>, content |-> Bytes],
      [name |-> <<"c",".","s","h","x">>, content |-> Bytes],
      [name |-> <<"c",".","d","b","f">>, content |-> Bytes] }

\* an archive whose shapefile comes without its .dbf
IncompleteArchiveMembers ==
    { [name |-> <<"d",".","s","h","p">>, content |-> Bytes],
      [name |-> <<"d",".","s","h","x">>, content |-> Bytes] }

Uploads ==
    { [name |-> <<"a",".","s","h","p">>, content |-> Bytes],
      [name |-> <<"a",".","s","h","x">>, content |-> Bytes],
      [name |-> <<"a",".","S","H","X">>, content |-> Bytes],
      [name |-> <<"a",".","d","b","f">>, content |-> Bytes],
      [name |-> <<"a",".","D","B","F">>, content |-> Bytes],
      [name |-> <<"r",".","t","i","f">>, content |-> Bytes],
      [name |-> <<"n",".","t","x","t">>, content |-> Bytes],
      [name |-> <<"z",".","z","i","p">>, content |-> Archive(ArchiveMembers)],
      [name |-> <<"x",".","z","i","p">>,
       content |-> Archive(IncompleteArchiveMembers)],
      [name |-> <<"y",".","z","i","p">>, content |-> Corrupt] }

\* UploadBatch: an ordered, non-empty sequence of files whose names are
\* unique up to letter case.
LowerNameOf == [u \in Uploads |-> Lower(u.name)]

Batches ==
    UNION { {b \in [1..n -> Uploads] :
                \A i, j \in 1..n : LowerNameOf[b[i]] = LowerNameOf[b[j]] => i = j}
            : n \in 1..MaxFiles }

(***************************************************************************)
(* Results                                                                 *)
(***************************************************************************)
NoError == [kind |-> "none", missing |-> <<>>]

Failure(name, kind, missing) ==
    [success |-> FALSE, name |-> name, type |-> "none",
     error |-> [kind |-> kind, missing |-> missing]]

Success(name, type) ==
    [success |-> TRUE, name |-> name, type |-> type, error |-> NoError]

NoResponse == [status |-> 0, body |-> <<>>]
JSONResponse(content) == [status |-> 200, body |-> content]
\* an exception that leaves the handler: the framework answers 500
InternalServerError == [status |-> 500, body |-> <<>>]

NoCall == [made |-> FALSE, name |-> <<>>, envBefore |-> Unset,
           setFlag |-> FALSE, path |-> "none"]

(***************************************************************************)
(* The scratch directory and the upload streams                            *)
(***************************************************************************)
DirNames(dir) == {e.name : e \in dir}

\* open(path, "wb") and a copy into it: the file is created or truncated
WriteFile(dir, name, content) ==
    {e \in dir : e.name # name} \cup {[name |-> name, content |-> content]}

ContentOf(dir, name) == (CHOOSE e \in dir : e.name = name).content

\* shutil.copyfileobj(file.file, buffer): what is left of the stream
ReadStream(fs, cons, i) == IF cons[i] THEN Empty ELSE fs[i].content

\* check_file_details: the file exists (and its first byte can be read)
check_file_details(dir, name) == name \in DirNames(dir)

RECURSIVE SaveAll(_, _, _, _)
SaveAll(fs, cons, dir, i) ==
    IF i > Len(fs) THEN dir
    ELSE SaveAll(fs, [cons EXCEPT ![i] = TRUE],
                 WriteFile(dir, fs[i].name, ReadStream(fs, cons, i)), i + 1)

RECURSIVE ExtractAll(_, _)
ExtractAll(dir, members) ==
    IF members = {} THEN dir
    ELSE LET m == CHOOSE x \in members : TRUE
         IN  ExtractAll(WriteFile(dir, m.name, m.content), members \ {m})

\* extract_zip: copies the stream to temp_dir/<name>, opens it as an archive
\* (BadZipFile when it is none) and lists every file of temp_dir.
extract_zip(fs, cons, dir, i) ==
    LET saved == WriteFile(dir, fs[i].name, ReadStream(fs, cons, i))
        onDisk == ContentOf(saved, fs[i].name)
    IN  IF onDisk.kind # "archive"
        THEN [raised |-> TRUE, dir |-> saved, extracted |-> {}]
        ELSE LET out == ExtractAll(saved, onDisk.members)
             IN  [raised |-> FALSE, dir |-> out, extracted |-> DirNames(out)]

(***************************************************************************)
(* Shapefile components and the shapefile read                             *)
(***************************************************************************)
\* check_shapefile_components: <base>.shx or <base>.SHX, and <base>.dbf, are
\* looked up in temp_dir under the base name exactly as the .shp spells it.
check_shapefile_components(shp, dir) ==
    LET shp_base == SplitExtRoot(shp)
        shx_exists == check_file_details(dir, shp_base \o DotShx)
        shx_upper_exists == check_file_details(dir, shp_base \o DotShxUpper)
        dbf_exists == check_file_details(dir, shp_base \o DotDbf)
    IN  IF ~(shx_exists \/ shx_upper_exists)
        THEN Failure(shp, "MissingShx", <<>>)
        ELSE IF ~dbf_exists
        THEN Failure(shp, "MissingDbf", <<>>)
        ELSE Success(shp, "components")

\* what gpd.read_file / to_crs / to_json do with the bytes of the .shp
ReadOutcomes == {"ok", "raise", "badjson"}

\* a process_shapefile that removes the flag on the successful path alone
process_shapefile_no_finally(shp, dir, e, outcome) ==
    LET check_result == check_shapefile_components(shp, dir)
        call(set, path) == [made |-> TRUE, name |-> shp, envBefore |-> e,
                            setFlag |-> set, path |-> path]
    IN  IF ~check_result.success
        THEN [result |-> check_result, env |-> e,
              call |-> call(FALSE, "missing_component")]
        ELSE IF ~check_file_details(dir, shp)
        THEN [result |-> Failure(shp, "NotFound", <<>>), env |-> "YES",
              call |-> call(TRUE, "shp_unreadable")]
        ELSE IF outcome = "raise"
        THEN [result |-> Failure(shp, "Exception", <<>>), env |-> "YES",
              call |-> call(TRUE, "read_exception")]
        ELSE IF outcome = "badjson"
        THEN [result |-> Failure(shp, "InvalidGeoJSON", <<>>), env |-> "YES",
              call |-> call(TRUE, "invalid_geojson")]
        ELSE [result |-> Success(shp, "vector"), env |-> Unset,
              call |-> call(TRUE, "success")]

\* process_shapefile: the result, the value of SHAPE_RESTORE_SHX it returns
\* with, and a record of the call.
process_shapefile(shp, dir, e, outcome) ==
    LET check_result == check_shapefile_components(shp, dir)
        call(set, path) == [made |-> TRUE, name |-> shp, envBefore |-> e,
                            setFlag |-> set, path |-> path]
    IN  IF ~check_result.success
        THEN [result |-> check_result, env |-> e,
              call |-> call(FALSE, "missing_component")]
        \* os.environ['SHAPE_RESTORE_SHX'] = 'YES' ... finally: os.environ.pop
        ELSE IF ~check_file_details(dir, shp)
        THEN [result |-> Failure(shp, "NotFound", <<>>), env |-> Unset,
              call |-> call(TRUE, "shp_unreadable")]
        ELSE IF outcome = "raise"
        THEN [result |-> Failure(shp, "Exception", <<>>), env |-> Unset,
              call |-> call(TRUE, "read_exception")]
        ELSE IF outcome = "badjson"
        THEN [result |-> Failure(shp, "InvalidGeoJSON", <<>>), env |-> Unset,
              call |-> call(TRUE, "invalid_geojson")]
        ELSE [result |-> Success(shp, "vector"), env |-> Unset,
              call |-> call(TRUE, "success")]

\* the loop over the .shp files an archive listing holds
RECURSIVE process_extracted(_, _, _, _)
process_extracted(shps, dir, e, outcomes) ==
    IF shps = <<>>
    THEN [results |-> <<>>, env |-> e, calls |-> <<>>]
    ELSE LET r == process_shapefile(Head(shps), dir, e, outcomes[Head(shps)])
             rest == process_extracted(Tail(shps), dir, r.env, outcomes)
         IN  [results |-> <<r.result>> \o rest.results, env |-> rest.env,
              calls |-> <<r.call>> \o rest.calls]

Event(op, name) == [op |-> op, name |-> name]

CallEvents(cs) == [i \in 1..Len(cs) |-> Event("process_shapefile", cs[i].name)]

\* process_raster as /upload sees it: an entry, successful or not
process_raster_entry(name, ok) ==
    IF ok THEN Success(name, "raster") ELSE Failure(name, "Exception", <<>>)

(***************************************************************************)
(* POST /upload                                                            *)
(***************************************************************************)
uploaded_filenames(fs) == [i \in 1..Len(fs) |-> Lower(fs[i].name)]

IsShpName(n) == EndsWith(n, DotShp)

required_extensions(shp_filename) ==
    <<SplitExtRoot(shp_filename) \o DotShx, SplitExtRoot(shp_filename) \o DotDbf>>

missing_extensions(shp_filename, names) ==
    LET InBatch(ext) == \E i \in 1..Len(names) : names[i] = ext
    IN  SelectSeq(required_extensions(shp_filename), LAMBDA ext : ~InBatch(ext))

\* the batch-level check: the first .shp of the batch that lacks a component
shp_files(names) == SelectSeq(names, IsShpName)

\* a batch check that looks for the .shx alone
FirstIncompleteShxOnly(names) ==
    LET shps == shp_files(names)
        HasShx(n) == \E i \in 1..Len(names) : names[i] = SplitExtRoot(n) \o DotShx
        bad == {i \in 1..Len(shps) : ~HasShx(shps[i])}
    IN  IF bad = {} THEN 0 ELSE CHOOSE i \in bad : \A j \in bad : i <= j

FirstIncomplete(names) ==
    LET shps == shp_files(names)
        bad == {i \in 1..Len(shps) : missing_extensions(shps[i], names) # <<>>}
    IN  IF bad = {} THEN 0 ELSE CHOOSE i \in bad : \A j \in bad : i <= j

ReceiveUpload ==
    /\ pc = "idle"
    /\ \E b \in Batches :
        /\ files' = b
        /\ consumed' = [i \in 1..Len(b) |-> FALSE]
    /\ pc' = "validate"
    /\ tempDir' = {}
    /\ dirExists' = TRUE
    /\ idx' = 1
    /\ results' = <<>>
    /\ response' = NoResponse
    /\ lastCall' = NoCall
    /\ calls' = <<>>
    /\ UNCHANGED <<env, raster, isect, near, scratch>>

\* app.py 249-264: a missing component answers at once, with one entry
ValidateBatch ==
    /\ pc = "validate"
    /\ LET names == uploaded_filenames(files)
           k == FirstIncomplete(names)
       IN  IF k # 0
           THEN LET shp == shp_files(names)[k]
                    out == <<Failure(shp, "MissingComponents",
                                     missing_extensions(shp, names))>>
                IN  /\ results' = out
                    /\ response' = JSONResponse(out)
                    /\ pc' = "responded"
                    /\ dirExists' = FALSE
                    /\ UNCHANGED tempDir
           ELSE /\ pc' = "save"
                /\ UNCHANGED <<results, response, dirExists, tempDir>>
    /\ UNCHANGED <<files, consumed, idx, env, lastCall, calls, raster, isect, near, scratch>>

\* app.py 266-273: every file of the batch is written to temp_dir
SaveFiles ==
    /\ pc = "save"
    /\ tempDir' = SaveAll(files, consumed, tempDir, 1)
    /\ consumed' = [i \in 1..Len(files) |-> TRUE]
    /\ calls' = calls \o [i \in 1..Len(files) |-> Event("save", files[i].name)]
    /\ pc' = "process"
    /\ UNCHANGED <<files, dirExists, idx, results, response, env, lastCall,
                   raster, isect, near, scratch>>

\* app.py 277-292: one turn of the processing loop, for files[idx]
ProcessFile ==
    /\ pc = "process"
    /\ idx <= Len(files)
    /\ LET name == files[idx].name
           lname == Lower(name)
       IN  IF EndsWith(lname, DotZip)
           THEN LET ex == extract_zip(files, consumed, tempDir, idx)
                    shps == {n \in ex.extracted : EndsWith(Lower(n), DotShp)}
                IN  IF ex.raised
                    \* no handler around extract_zip: the request ends here
                    THEN /\ response' = InternalServerError
                         /\ pc' = "responded"
                         /\ tempDir' = {}
                         /\ dirExists' = FALSE
                         /\ calls' = Append(calls, Event("extract_zip", name))
                         /\ consumed' = [consumed EXCEPT ![idx] = TRUE]
                         /\ UNCHANGED <<idx, results, env, lastCall>>
                    \* os.listdir gives the files of temp_dir in any order
                    ELSE \E order \in Orderings(shps), oc \in [shps -> ReadOutcomes] :
                           LET r == process_extracted(order, ex.dir, env, oc)
                           IN  /\ results' = results \o r.results
                               /\ env' = r.env
                               /\ lastCall' = IF r.calls = <<>> THEN lastCall
                                               ELSE r.calls[Len(r.calls)]
                               /\ calls' = Append(calls, Event("extract_zip", name))
                                              \o CallEvents(r.calls)
                               /\ tempDir' = ex.dir
                               /\ idx' = idx + 1
                               /\ consumed' = [consumed EXCEPT ![idx] = TRUE]
                               /\ UNCHANGED <<pc, response, dirExists>>
           ELSE IF EndsWith(lname, DotShp)
           THEN \E outcome \in ReadOutcomes :
                  LET r == process_shapefile(name, tempDir, env, outcome)
                  IN  /\ results' = Append(results, r.result)
                      /\ env' = r.env
                      /\ lastCall' = r.call
                      /\ calls' = Append(calls, Event("process_shapefile", name))
                      /\ idx' = idx + 1
                      /\ UNCHANGED <<pc, response, dirExists, tempDir, consumed>>
           ELSE IF EndsWithAny(lname, {DotTif, DotTiff})
           THEN \E ok \in BOOLEAN :
                  /\ results' = Append(results, process_raster_entry(name, ok))
                  /\ calls' = Append(calls, Event("process_raster", name))
                  /\ idx' = idx + 1
                  /\ UNCHANGED <<pc, response, dirExists, tempDir, env, lastCall,
                                 consumed>>
           \* "Skipping file (not processed)": continue
           ELSE /\ idx' = idx + 1
                /\ UNCHANGED <<pc, response, dirExists, tempDir, env, lastCall,
                               results, calls, consumed>>
    /\ UNCHANGED <<files, raster, isect, near, scratch>>

\* app.py 293-299: the loop is over, the directory is removed, the list is sent
Respond ==
    /\ pc = "process"
    /\ idx > Len(files)
    /\ response' = JSONResponse(results)
    /\ pc' = "responded"
    /\ tempDir' = {}
    /\ dirExists' = FALSE
    /\ UNCHANGED <<files, consumed, idx, results, env, lastCall, calls,
                   raster, isect, near, scratch>>

\* the handler has returned: its locals are gone, the process environment stays
EndRequest ==
    /\ pc = "responded"
    /\ pc' = "idle"
    /\ files' = <<>>
    /\ consumed' = <<>>
    /\ idx' = 1
    /\ results' = <<>>
    /\ response' = NoResponse
    /\ lastCall' = NoCall
    /\ calls' = <<>>
    /\ UNCHANGED <<tempDir, dirExists, env, raster, isect, near, scratch>>

(***************************************************************************)
(* process_raster                                                          *)
(***************************************************************************)
None == "None"
EPSG4326 == "EPSG:4326"
EPSG32610 == "EPSG:32610"
EPSG3857 == "EPSG:3857"

Uint8Range == 256

\* ndarray.astype(np.uint8) of a value that has been truncated to an integer
AsUint8(x) == x % Uint8Range

SeqMax(q) == CHOOSE m \in SeqRange(q) : \A x \in SeqRange(q) : x <= m
SeqMin(q) == CHOOSE m \in SeqRange(q) : \A x \in SeqRange(q) : m <= x

\* a stretch that divides by the maximum instead of the observed range
NormalizeSingleBandByMax(band) ==
    IF SeqMax(band) = SeqMin(band)
    THEN [i \in 1..Len(band) |-> AsUint8(0)]
    ELSE [i \in 1..Len(band) |->
            AsUint8(((band[i] - SeqMin(band)) * 255) \div SeqMax(band))]

\* app.py 201-206: the single-band stretch.  The samples are integers and the
\* quotient is taken exactly before the truncating cast.
NormalizeSingleBand(band) ==
    IF SeqMax(band) = SeqMin(band)
    THEN [i \in 1..Len(band) |-> AsUint8(0)]
    ELSE [i \in 1..Len(band) |->
            AsUint8(((band[i] - SeqMin(band)) * 255)
                        \div (SeqMax(band) - SeqMin(band)))]

\* app.py 193-195: an RGB composite is cast to 8 bits as it is
CastBand(band) == [i \in 1..Len(band) |-> AsUint8(band[i])]

\* app.py 217-221: the source CRS of the bounds transformation
ResolveSourceCrs(crs) == IF crs = None THEN EPSG32610 ELSE crs

\* process_raster on an opened dataset src (rasterio.open may raise)
process_raster(src) ==
    IF ~src.readable
    THEN [success |-> FALSE, arr |-> <<>>, src_crs |-> None, dst_crs |-> None]
    ELSE [success |-> TRUE,
          arr |-> IF src.count >= 3 THEN CastBand(src.band)
                  ELSE NormalizeSingleBand(src.band),
          src_crs |-> ResolveSourceCrs(src.crs),
          dst_crs |-> EPSG4326]

\* bounds as (left, bottom, right, top)
BoundsSamples ==
    { <<10, 45, 12, 47>>, <<500000, 4649776, 600000, 4749776>> }

Bands == UNION { [1..n -> 0..MaxSample] : n \in 1..MaxPixels }

Rasters ==
    [count : 1..3, band : Bands, crs : {None, EPSG4326, EPSG3857},
     bounds : BoundsSamples, readable : BOOLEAN]

(***************************************************************************)
(* Per-request scratch directories: with tempfile.TemporaryDirectory(      *)
(* dir=UPLOAD_DIR) as temp_dir, in every endpoint.  Requests are allowed   *)
(* to interleave, as they do when several server processes share uploads/. *)
(***************************************************************************)
Endpoints == {"upload", "clip", "intersect", "buffer", "near"}

\* the ways a handler leaves its with block
ExitPaths(kind) ==
    IF kind = "upload"
    THEN {"response", "sidecar_failure", "exception"}
    ELSE {"response", "exception"}

\* the names mkdtemp can draw
DirNamePool == 1..MaxRequests

ExistingDirs(dirs) == {e.name : e \in dirs}

\* a directory creation that takes any name, in use or not
mkdtemp_any_name(dirs) == DirNamePool

\* tempfile.mkdtemp: a name under uploads/ that does not exist yet (os.mkdir
\* fails on an existing name and another name is drawn)
mkdtemp(dirs) == DirNamePool \ ExistingDirs(dirs)

\* shutil.rmtree(temp_dir): the directory and everything in it
rmtree(dirs, name) == {e \in dirs : e.name # name}

\* a file written to os.path.join(temp_dir, filename)
WriteInto(dirs, name, file) ==
    {IF e.name = name THEN [e EXCEPT !.files = e.files \cup {file}] ELSE e
        : e \in dirs}

NoRequest == [stage |-> "none", kind |-> "none", dir |-> 0, saved |-> 0,
              exit |-> "none"]

NoScratch == [dirs |-> {}, reqs |-> [r \in 1..MaxRequests |-> NoRequest]]

\* TemporaryDirectory.__enter__
EnterScratch(r) ==
    /\ scratch.reqs[r].stage = "none"
    /\ \E kind \in Endpoints, d \in mkdtemp(scratch.dirs) :
          scratch' =
            [dirs |-> rmtree(scratch.dirs, d)
                        \cup {[name |-> d, owner |-> r, files |-> {}]},
             reqs |-> [scratch.reqs EXCEPT
                         ![r] = [stage |-> "open", kind |-> kind, dir |-> d,
                                 saved |-> 0, exit |-> "none"]]]
    /\ UNCHANGED <<uploadVars, raster, isect, near>>

\* app.py 315-316: /intersect with fewer than 2 files answers before any
\* directory is made
IntersectTooFew(r) ==
    /\ scratch.reqs[r].stage = "none"
    /\ scratch' =
         [scratch EXCEPT
            !.reqs[r] = [stage |-> "ended", kind |-> "intersect", dir |-> 0,
                         saved |-> 0, exit |-> "response"]]
    /\ UNCHANGED <<uploadVars, raster, isect, near>>

\* a save (app.py 269-271, tools.py 19-21) or an archive member extracted
WriteScratch(r) ==
    /\ scratch.reqs[r].stage = "open"
    /\ scratch.reqs[r].saved < MaxSaved
    /\ scratch' =
         [dirs |-> WriteInto(scratch.dirs, scratch.reqs[r].dir,
                             [by |-> r, n |-> scratch.reqs[r].saved + 1]),
          reqs |-> [scratch.reqs EXCEPT ![r].saved = @ + 1]]
    /\ UNCHANGED <<uploadVars, raster, isect, near>>

\* TemporaryDirectory.__exit__, on a return or on an exception
ExitScratch(r) ==
    /\ scratch.reqs[r].stage = "open"
    /\ \E path \in ExitPaths(scratch.reqs[r].kind) :
          \* the batch check answers before anything is saved
          /\ path = "sidecar_failure" => scratch.reqs[r].saved = 0
          /\ scratch' =
               [dirs |-> rmtree(scratch.dirs, scratch.reqs[r].dir),
                reqs |-> [scratch.reqs EXCEPT
                            ![r] = [@ EXCEPT !.stage = "ended", !.dir = 0,
                                             !.exit = path]]]
    /\ UNCHANGED <<uploadVars, raster, isect, near>>

\* the handler has returned; the next request may come
ForgetRequest(r) ==
    /\ scratch.reqs[r].stage = "ended"
    /\ scratch' = [scratch EXCEPT !.reqs[r] = NoRequest]
    /\ UNCHANGED <<uploadVars, raster, isect, near>>

NextScratch ==
    \E r \in 1..MaxRequests :
        \/ EnterScratch(r)
        \/ IntersectTooFew(r)
        \/ WriteScratch(r)
        \/ ExitScratch(r)
        \/ ForgetRequest(r)

NoRaster == [stage |-> "none"]
NoIntersect == [stage |-> "none"]
NoNear == [stage |-> "none"]

InitIdle ==
    /\ pc = "idle"
    /\ files = <<>>
    /\ consumed = <<>>
    /\ tempDir = {}
    /\ dirExists = FALSE
    /\ idx = 1
    /\ results = <<>>
    /\ response = NoResponse
    /\ env = Unset
    /\ lastCall = NoCall
    /\ calls = <<>>
    /\ raster = NoRaster
    /\ isect = NoIntersect
    /\ near = NoNear
    /\ scratch = NoScratch

(***************************************************************************)
(* POST /intersect and intersect_vectors                                   *)
(***************************************************************************)
Digits == <<"0","1","2","3","4","5","6","7","8","9">>

\* str(i) for i >= 0
RECURSIVE Str(_)
Str(i) == IF i < 10 THEN <<Digits[i + 1]>>
          ELSE Str(i \div 10) \o <<Digits[(i % 10) + 1]>>

Geometry == <<"g","e","o","m","e","t","r","y">>

\* a rename that leaves the layer's position out of the new name
RenameColumnsNoIndex(columns, i) ==
    [k \in 1..Len(columns) |->
        IF columns[k] # Geometry THEN columns[k] \o <<"_">> ELSE columns[k]]

\* tools.py 58: f"{col}_{i}" for every column but "geometry"
RenameColumns(columns, i) ==
    [k \in 1..Len(columns) |->
        IF columns[k] # Geometry THEN columns[k] \o <<"_">> \o Str(i)
        ELSE columns[k]]

FailureOf(kind) == [success |-> FALSE, error |-> kind]
GeoJSON == [success |-> TRUE, error |-> "none"]

\* intersect_vectors(input_files): the result, the layers as they stand when
\* it returns, and the operations it performed, in order.  layers[p] is the
\* layer at position p - 1 of the code's list.
intersect_vectors(input_files, overlay_ok) ==
    LET n == Len(input_files)
        unreadable == {p \in 1..n : ~input_files[p].readable}
        firstBad == CHOOSE p \in unreadable : \A q \in unreadable : p <= q
        reads(m) == [p \in 1..m |-> <<"read", p - 1>>]
        base_crs == input_files[1].crs
        reprojected == [p \in 1..n |-> [input_files[p] EXCEPT !.crs = base_crs]]
        to_crs == SelectSeq([p \in 1..n |-> <<"to_crs", p - 1>>],
                            LAMBDA ev : input_files[ev[2] + 1].crs # base_crs)
        renamed == [p \in 1..n |->
                      [reprojected[p] EXCEPT
                          !.columns = RenameColumns(reprojected[p].columns, p - 1)]]
        renames == [p \in 1..n |-> <<"rename", p - 1>>]
        empties == {p \in 1..n : renamed[p].has_empty}
        firstEmpty == CHOOSE p \in empties : \A q \in empties : p <= q
        checks(m) == [p \in 1..m |-> <<"is_empty", p - 1>>]
        overlays == [p \in 1..(n - 1) |-> <<"overlay", p>>]
    IN  IF n < 2
        THEN [result |-> FailureOf("InsufficientLayers"), layers |-> input_files,
              log |-> <<>>]
        ELSE IF unreadable # {}
        THEN [result |-> FailureOf("Exception"), layers |-> input_files,
              log |-> reads(firstBad)]
        ELSE IF empties # {}
        THEN [result |-> FailureOf("EmptyGeometries"), layers |-> renamed,
              log |-> reads(n) \o to_crs \o renames \o checks(firstEmpty)]
        ELSE IF ~overlay_ok
        THEN [result |-> FailureOf("Exception"), layers |-> renamed,
              log |-> reads(n) \o to_crs \o renames \o checks(n)
                        \o <<overlays[1]>>]
        ELSE [result |-> GeoJSON, layers |-> renamed,
              log |-> reads(n) \o to_crs \o renames \o checks(n) \o overlays]

\* app.py 311-321: intersect_endpoint
intersect_endpoint(fs, overlay_ok) ==
    IF Len(fs) < 2
    THEN [result |-> FailureOf("InsufficientLayers"), layers |-> fs,
          log |-> <<>>]
    ELSE LET r == intersect_vectors(fs, overlay_ok)
             saves == [p \in 1..Len(fs) |-> <<"save", p - 1>>]
         IN  [result |-> r.result, layers |-> r.layers, log |-> saves \o r.log]

Id == <<"i","d">>
Id0 == <<"i","d","_","0">>
Id1 == <<"i","d","_","1">>

LayerSamples ==
    { [columns |-> <<Id, Geometry>>, crs |-> EPSG4326,
       has_empty |-> FALSE, readable |-> TRUE],
      [columns |-> <<Id, Id1, Geometry>>, crs |-> EPSG3857,
       has_empty |-> FALSE, readable |-> TRUE],
      [columns |-> <<Geometry, Id0>>, crs |-> EPSG4326,
       has_empty |-> FALSE, readable |-> TRUE],
      [columns |-> <<Id, Geometry>>, crs |-> EPSG4326,
       has_empty |-> TRUE, readable |-> TRUE],
      [columns |-> <<Id, Geometry>>, crs |-> EPSG4326,
       has_empty |-> FALSE, readable |-> FALSE] }

LayerLists == UNION { [1..n -> LayerSamples] : n \in 1..MaxLayers }

\* which function the request reaches: the endpoint, or intersect_vectors
\* called directly with the paths
ReceiveIntersect ==
    /\ isect.stage = "none"
    /\ \E fs \in LayerLists, ok \in BOOLEAN, direct \in BOOLEAN :
          isect' = [stage |-> "received", files |-> fs, overlay_ok |-> ok,
                    direct |-> direct]
    /\ UNCHANGED <<uploadVars, raster, near, scratch>>

RunIntersect ==
    /\ isect.stage = "received"
    /\ isect' = [stage |-> "done", files |-> isect.files,
                 overlay_ok |-> isect.overlay_ok, direct |-> isect.direct,
                 out |-> IF isect.direct
                         THEN intersect_vectors(isect.files, isect.overlay_ok)
                         ELSE intersect_endpoint(isect.files, isect.overlay_ok)]
    /\ UNCHANGED <<uploadVars, raster, near, scratch>>

ReturnIntersect ==
    /\ isect.stage = "done"
    /\ isect' = NoIntersect
    /\ UNCHANGED <<uploadVars, raster, near, scratch>>

NextIntersect ==
    \/ ReceiveIntersect
    \/ RunIntersect
    \/ ReturnIntersect

SpecIntersect == InitIdle /\ [][NextIntersect]_vars

OpenRaster ==
    /\ raster.stage = "none"
    /\ \E src \in Rasters : raster' = [stage |-> "open", src |-> src]
    /\ UNCHANGED <<uploadVars, isect, near, scratch>>

ProcessRaster ==
    /\ raster.stage = "open"
    /\ raster' = [stage |-> "done", src |-> raster.src,
                  out |-> process_raster(raster.src)]
    /\ UNCHANGED <<uploadVars, isect, near, scratch>>

ReturnRaster ==
    /\ raster.stage = "done"
    /\ raster' = NoRaster
    /\ UNCHANGED <<uploadVars, isect, near, scratch>>

SpecScratch == InitIdle /\ [][NextScratch]_vars

NextRaster ==
    \/ OpenRaster
    \/ ProcessRaster
    \/ ReturnRaster

SpecRaster == InitIdle /\ [][NextRaster]_vars

Init ==
    /\ pc = "idle"
    /\ files = <<>>
    /\ consumed = <<>>
    /\ tempDir = {}
    /\ dirExists = FALSE
    /\ idx = 1
    /\ results = <<>>
    /\ response = NoResponse
    \* the process starts with whatever environment it was launched in
    /\ env \in EnvValues
    /\ lastCall = NoCall
    /\ calls = <<>>
    /\ raster = NoRaster
    /\ isect = NoIntersect
    /\ near = NoNear
    /\ scratch = NoScratch

Next ==
    \/ ReceiveUpload
    \/ ValidateBatch
    \/ SaveFiles
    \/ ProcessFile
    \/ Respond
    \/ EndRequest

Spec == Init /\ [][Next]_vars

(***************************************************************************)
(* POST /near and near_features                                            *)
(***************************************************************************)
\* the names tools.py binds at module level (its imports, lines 1-11, its
\* logger and its functions)
ModuleGlobals ==
    {"gpd", "json", "tempfile", "os", "shutil", "logging", "reduce", "folium",
     "shape", "mapping", "tqdm", "MarkerCluster", "logger", "save_temp_file",
     "clip_vector", "intersect_vectors", "buffer_vector", "near_features"}

Null == [null |-> TRUE, v |-> 0]
Value(x) == [null |-> FALSE, v |-> x]

\* features are points on a line; geometry.distance is the absolute difference
Distance(a, b) == IF a >= b THEN a - b ELSE b - a

\* near_sindex.nearest(bounds, num_results=k): the positions of the k nearest
\* near features (ties broken by position)
Closer(nearPts, x, p, q) ==
    \/ Distance(nearPts[p], x) < Distance(nearPts[q], x)
    \/ (Distance(nearPts[p], x) = Distance(nearPts[q], x) /\ p < q)

NearestK(nearPts, x, k) ==
    {p \in 1..Len(nearPts) :
        Cardinality({q \in 1..Len(nearPts) : Closer(nearPts, x, q, p)}) < k}

\* tools.py 120-133: find_nearest(row).  Both return statements build a
\* pd.Series, and the name pd is looked up among the module's globals.
find_nearest(x, nearPts, max_distance, k) ==
    LET possible == NearestK(nearPts, x, k)
        kept == IF max_distance.null THEN possible
                ELSE {p \in possible : Distance(nearPts[p], x) <= max_distance.v}
        nearest == CHOOSE p \in kept : \A q \in kept : p = q \/ Closer(nearPts, x, p, q)
    IN  IF "pd" \notin ModuleGlobals
        THEN [raised |-> TRUE, NEAR_FID |-> Null, NEAR_DIST |-> Null]
        ELSE IF kept # {}
        THEN [raised |-> FALSE, NEAR_FID |-> Value(nearest),
              NEAR_DIST |-> Value(Distance(nearPts[nearest], x))]
        ELSE [raised |-> FALSE, NEAR_FID |-> Null, NEAR_DIST |-> Null]

\* tools.py 110-113: a geographic CRS is reprojected to EPSG:3857, which
\* takes a degree to about 111320 metres
is_geographic(crs) == crs = EPSG4326

ToMercator(points) == [p \in 1..Len(points) |-> points[p] * 111320]

Projected(layer) ==
    IF is_geographic(layer.crs) THEN ToMercator(layer.points) ELSE layer.points

\* near_features: any exception is turned into {success: False, error}
near_features(input, nearLayer, max_distance, k) ==
    LET rows == [p \in 1..Len(input.points) |->
                    find_nearest(Projected(input)[p], Projected(nearLayer),
                                 max_distance, k)]
    IN  IF ~input.readable \/ ~nearLayer.readable
        THEN [success |-> FALSE, error |-> "Exception", features |-> <<>>]
        ELSE IF input.crs # nearLayer.crs
        THEN [success |-> FALSE, error |-> "CrsMismatch", features |-> <<>>]
        ELSE IF \E p \in 1..Len(rows) : rows[p].raised
        THEN [success |-> FALSE, error |-> "NameError", features |-> <<>>]
        ELSE [success |-> TRUE, error |-> "none",
              features |-> [p \in 1..Len(rows) |->
                              [NEAR_FID |-> rows[p].NEAR_FID,
                               NEAR_DIST |-> rows[p].NEAR_DIST]]]

PointLists == UNION { [1..n -> 0..MaxCoord] : n \in 1..MaxFeatures }

PointLayers == [points : PointLists, crs : {EPSG4326, EPSG3857}, readable : BOOLEAN]

MaxDistances == {Null} \cup {Value(d) : d \in 0..MaxCoord}

ReceiveNear ==
    /\ near.stage = "none"
    /\ \E input \in PointLayers, nl \in PointLayers, md \in MaxDistances,
          k \in 1..MaxFeatures :
          near' = [stage |-> "received", input |-> input, near |-> nl,
                   max_distance |-> md, k_neighbors |-> k]
    /\ UNCHANGED <<uploadVars, raster, isect, scratch>>

RunNear ==
    /\ near.stage = "received"
    /\ near' = [stage |-> "done", input |-> near.input, near |-> near.near,
                max_distance |-> near.max_distance, k_neighbors |-> near.k_neighbors,
                out |-> near_features(near.input, near.near, near.max_distance,
                                      near.k_neighbors)]
    /\ UNCHANGED <<uploadVars, raster, isect, scratch>>

ReturnNear ==
    /\ near.stage = "done"
    /\ near' = NoNear
    /\ UNCHANGED <<uploadVars, raster, isect, scratch>>

NextNear ==
    \/ ReceiveNear
    \/ RunNear
    \/ ReturnNear

SpecNear == InitIdle /\ [][NextNear]_vars

(***************************************************************************)
(* Claims about POST /upload                                               *)
(***************************************************************************)
HasLowerName(fs, n) == \E j \in 1..Len(fs) : Lower(fs[j].name) = n

TopLevelShps(fs) == {i \in 1..Len(fs) : EndsWith(Lower(fs[i].name), DotShp)}

MissingOf(fs, i) ==
    {c \in {SplitExtRoot(Lower(fs[i].name)) \o DotShx,
            SplitExtRoot(Lower(fs[i].name)) \o DotDbf} : ~HasLowerName(fs, c)}

\* some top-level .shp lacks its same-base .shx or .dbf
LacksSidecar(fs) == \E i \in TopLevelShps(fs) : MissingOf(fs, i) # {}

EntryNames(body) == [k \in 1..Len(body) |-> body[k].name]

\* C1: a batch in which a top-level .shp lacks its .shx or .dbf is answered
\* with exactly one failure entry that names the missing components of that
\* shapefile, and nothing of the batch is ever saved, expanded or processed.
C1_IncompleteBatchRejected ==
    LacksSidecar(files) =>
        /\ calls = <<>>
        /\ tempDir = {}
        /\ response.status # 500
        /\ pc \in {"validate", "responded"}
        /\ pc = "responded" =>
            /\ response.status = 200
            /\ Len(response.body) = 1
            /\ ~response.body[1].success
            /\ \E i \in TopLevelShps(files) :
                /\ response.body[1].name = Lower(files[i].name)
                /\ MissingOf(files, i) # {}
                /\ SeqRange(response.body[1].error.missing) = MissingOf(files, i)

C1_Witness ==
    /\ pc = "responded"
    /\ Len(files) = 3
    /\ LacksSidecar(files)
    /\ response.body[1].error.missing = << <<"a",".","d","b","f">> >>

\* C2: once the batch check has passed, no failure of one file (a bad
\* archive included) ends the request: the response is a list and the loop
\* has gone through every file of the batch.
C2_FileFailureNeverAborts ==
    (pc = "responded" /\ ~LacksSidecar(files)) =>
        /\ response.status = 200
        /\ idx = Len(files) + 1

SupportedExtensions == {DotTif, DotTiff, DotShp, DotShx, DotDbf, DotPrj, DotZip}

Unsupported(n) == ~EndsWithAny(Lower(n), SupportedExtensions)

\* C3: every uploaded file of an unsupported extension has a failure entry
\* of its own in the response.
C3_UnsupportedReported ==
    (pc = "responded" /\ ~LacksSidecar(files) /\ response.status = 200) =>
        \A i \in 1..Len(files) :
            Unsupported(files[i].name) =>
                \E k \in 1..Len(response.body) :
                    /\ response.body[k].name = files[i].name
                    /\ ~response.body[k].success

\* the names the response is to hold, in upload order: a top-level .shp or
\* .tif/.tiff once, an archive's .shp members once each
RECURSIVE ExpectedEntryNames(_)
ExpectedEntryNames(fs) ==
    IF fs = <<>> THEN {<<>>}
    ELSE LET f == Head(fs)
             n == Lower(f.name)
             heads ==
                IF EndsWith(n, DotZip)
                THEN Orderings({m.name : m \in {x \in f.content.members :
                                                   EndsWith(Lower(x.name), DotShp)}})
                ELSE IF EndsWith(n, DotShp) \/ EndsWithAny(n, {DotTif, DotTiff})
                THEN {<<f.name>>}
                ELSE {<<>>}
         IN  {h \o t : h \in heads, t \in ExpectedEntryNames(Tail(fs))}

OnlyReadableSupported(fs) ==
    \A i \in 1..Len(fs) :
        /\ ~Unsupported(fs[i].name)
        /\ EndsWith(Lower(fs[i].name), DotZip) => fs[i].content.kind = "archive"

\* C4: for a batch that passes the batch check the response holds, in upload
\* order, exactly one entry per top-level .shp, per top-level .tif/.tiff and
\* per .shp member of each archive.
C4_OneEntryPerLogicalFile ==
    (pc = "responded" /\ ~LacksSidecar(files) /\ OnlyReadableSupported(files)) =>
        /\ response.status = 200
        /\ EntryNames(response.body) \in ExpectedEntryNames(files)

\* C9 (as claimed): after every return of process_shapefile the flag has the
\* value it had before the call.
C9_FlagRestoredToPriorValue ==
    lastCall.made => env = lastCall.envBefore

\* C9 (amended): process_shapefile leaves SHAPE_RESTORE_SHX as it found it
\* when it returns at the component check, and on every other path (success,
\* unreadable .shp, read or reprojection exception, invalid GeoJSON) it
\* returns with the flag removed from the environment.
C9_FlagRemovedAfterRead ==
    lastCall.made =>
        /\ lastCall.path = "missing_component" =>
              (env = lastCall.envBefore /\ ~lastCall.setFlag)
        /\ lastCall.path # "missing_component" =>
              (env = Unset /\ lastCall.setFlag)

C9_Witness ==
    /\ lastCall.made
    /\ lastCall.path = "read_exception"
    /\ lastCall.envBefore = "NO"
    /\ env = Unset

\* C10: a batch accepted by the batch check never yields a missing-.shx or
\* missing-.dbf entry for a top-level shapefile.
C10_AcceptedBatchHasComponents ==
    (pc = "responded" /\ ~LacksSidecar(files) /\ response.status = 200) =>
        \A k \in 1..Len(response.body) :
            (\E i \in TopLevelShps(files) : files[i].name = response.body[k].name)
                => response.body[k].error.kind \notin {"MissingShx", "MissingDbf"}

(***************************************************************************)
(* Claims about process_raster                                             *)
(***************************************************************************)
GeographicBounds(b) ==
    /\ b[1] >= -180 /\ b[1] <= 180
    /\ b[3] >= -180 /\ b[3] <= 180
    /\ b[2] >= -90 /\ b[2] <= 90
    /\ b[4] >= -90 /\ b[4] <= 90

\* C5: a raster with no declared CRS whose bounds all lie in the
\* longitude/latitude range has its bounds transformed from EPSG:4326.
C5_GeographicBoundsResolveTo4326 ==
    (/\ raster.stage = "done"
     /\ raster.out.success
     /\ raster.src.crs = None
     /\ GeographicBounds(raster.src.bounds))
        => raster.out.src_crs = EPSG4326

\* C6: for a raster of fewer than 3 bands the normalized band is all zeros
\* when every sample is equal; otherwise the minimum maps to 0, the maximum
\* to 255, and in both cases every output value lies in 0..255.
C6_SingleBandStretch ==
    (raster.stage = "done" /\ raster.out.success /\ raster.src.count < 3) =>
        LET band == raster.src.band
            arr == raster.out.arr
        IN  /\ Len(arr) = Len(band)
            /\ \A i \in 1..Len(arr) : arr[i] \in 0..255
            /\ (\A i, j \in 1..Len(band) : band[i] = band[j])
                  => \A i \in 1..Len(arr) : arr[i] = 0
            /\ (\E i, j \in 1..Len(band) : band[i] # band[j])
                  => \A i \in 1..Len(band) :
                        /\ (\A j \in 1..Len(band) : band[i] <= band[j]) => arr[i] = 0
                        /\ (\A j \in 1..Len(band) : band[i] >= band[j]) => arr[i] = 255

C6_Witness ==
    /\ raster.stage = "done"
    /\ raster.out.success
    /\ raster.src.count = 1
    /\ raster.src.band = <<1, 3, 5>>
    /\ raster.out.arr = <<0, 127, 255>>

(***************************************************************************)
(* Claims about intersect                                                  *)
(***************************************************************************)
NonGeometry(columns) == {c \in SeqRange(columns) : c # Geometry}

LogPositions(log, op) == {k \in 1..Len(log) : log[k][1] = op}

\* C7: with fewer than 2 layers intersect fails with the insufficient-layers
\* error and reads no layer; with n >= 2 layers, whenever an overlay is
\* attempted every layer has been renamed before it (column c of the layer at
\* position i is c_i, the geometry column keeps its name), the renamed
\* non-geometry names of two distinct layers are disjoint, and every layer
\* has passed the empty-geometry check before it.
C7_IntersectRenamesBeforeOverlay ==
    isect.stage = "done" =>
        LET n == Len(isect.files)
            out == isect.out
            overlays == LogPositions(out.log, "overlay")
        IN  /\ n < 2 =>
                /\ ~out.result.success
                /\ out.result.error = "InsufficientLayers"
                /\ LogPositions(out.log, "read") = {}
            /\ (n >= 2 /\ overlays # {}) =>
                /\ \A p \in 1..n :
                    /\ \E k \in LogPositions(out.log, "rename") :
                          out.log[k][2] = p - 1 /\ \A o \in overlays : k < o
                    /\ \E k \in LogPositions(out.log, "is_empty") :
                          out.log[k][2] = p - 1 /\ \A o \in overlays : k < o
                    /\ ~isect.files[p].has_empty
                    /\ Len(out.layers[p].columns) = Len(isect.files[p].columns)
                    /\ \A c \in 1..Len(isect.files[p].columns) :
                          out.layers[p].columns[c] =
                            IF isect.files[p].columns[c] = Geometry THEN Geometry
                            ELSE isect.files[p].columns[c] \o <<"_">> \o Str(p - 1)
                /\ \A p, q \in 1..n :
                    p # q => NonGeometry(out.layers[p].columns)
                               \cap NonGeometry(out.layers[q].columns) = {}
            /\ (n >= 2 /\ \E p \in 1..n : isect.files[p].has_empty) =>
                /\ ~out.result.success
                /\ overlays = {}

\* two layers that both have a column "id" give id_0 and id_1, and a layer
\* whose column is already called id_1 does not collide with them
C7_Witness ==
    /\ isect.stage = "done"
    /\ isect.out.result.success
    /\ Len(isect.files) = 3
    /\ isect.files[1].columns = <<Id, Geometry>>
    /\ isect.files[2].columns = <<Id, Id1, Geometry>>
    /\ isect.out.layers[1].columns = <<Id0, Geometry>>
    /\ isect.out.layers[2].columns = <<Id1, <<"i","d","_","1","_","1">>, Geometry>>
    /\ isect.out.layers[3].columns = <<<<"i","d","_","2">>, Geometry>>

(***************************************************************************)
(* Claims about near                                                       *)
(***************************************************************************)
\* C8: near on two readable layers that share a CRS, with a maxDistance
\* smaller than the distance from every input feature to every near feature,
\* succeeds and gives every input feature null NEAR_FID and NEAR_DIST.
C8_NearBeyondMaxDistanceIsNull ==
    (/\ near.stage = "done"
     /\ near.input.readable /\ near.near.readable
     /\ near.input.crs = near.near.crs
     /\ ~near.max_distance.null
     /\ \A p \in 1..Len(near.input.points), q \in 1..Len(near.near.points) :
           Distance(Projected(near.input)[p], Projected(near.near)[q])
              > near.max_distance.v)
        => /\ near.out.success
           /\ Len(near.out.features) = Len(near.input.points)
           /\ \A p \in 1..Len(near.out.features) :
                 near.out.features[p].NEAR_FID.null
                 /\ near.out.features[p].NEAR_DIST.null

(***************************************************************************)
(* Claims about shapefiles that arrive inside an archive                   *)
(***************************************************************************)
\* the names the scratch directory holds once every file of the batch is
\* saved and every archive of it is expanded
NamesAfterExpansion(fs) ==
    {fs[i].name : i \in 1..Len(fs)}
        \cup UNION {{m.name : m \in fs[i].content.members} : i \in 1..Len(fs)}

\* the .shp members of the archives of the batch that have no .shx or no
\* .dbf of their base name in the scratch directory after expansion
IncompleteMembers(fs) ==
    {n \in UNION {{m.name : m \in fs[i].content.members} : i \in 1..Len(fs)} :
        /\ EndsWith(Lower(n), DotShp)
        /\ \/ ~\E o \in NamesAfterExpansion(fs) :
                   Lower(o) = Lower(SplitExtRoot(n) \o DotShx)
           \/ ~\E o \in NamesAfterExpansion(fs) :
                   Lower(o) = Lower(SplitExtRoot(n) \o DotDbf)}

\* C11: a .shp that only an archive holds passes the batch check; once the
\* archive is expanded, a missing .shx or .dbf gives that shapefile a failure
\* entry naming the component, the shapefile is not read and the flag is not
\* set for it, and the rest of the batch is still processed.
C11_ArchivedShapefileCheckedAfterExpansion ==
    (pc = "responded" /\ ~LacksSidecar(files)) =>
        \A n \in IncompleteMembers(files) :
            /\ response.status = 200
            /\ idx = Len(files) + 1
            /\ \E k \in 1..Len(response.body) :
                  /\ response.body[k].name = n
                  /\ ~response.body[k].success
                  /\ response.body[k].error.kind \in {"MissingShx", "MissingDbf"}
            /\ lastCall.name = n => ~lastCall.setFlag

(***************************************************************************)
(* Claims about the scratch directories                                    *)
(***************************************************************************)
OpenRequests == {r \in 1..MaxRequests : scratch.reqs[r].stage = "open"}

\* C12: a request works in a scratch directory made for it alone (two
\* requests in progress never have the same directory, and a directory holds
\* only files of the request that made it), and once a request has ended, by
\* a response, a batch-level sidecar failure or an exception, its directory
\* and the files in it are gone.
C12_ScratchPerRequestAndRemoved ==
    /\ \A r1, r2 \in OpenRequests :
          r1 # r2 => scratch.reqs[r1].dir # scratch.reqs[r2].dir
    /\ \A r \in OpenRequests :
          \E e \in scratch.dirs :
              /\ e.name = scratch.reqs[r].dir
              /\ e.owner = r
              /\ e.files = {[by |-> r, n |-> k] : k \in 1..scratch.reqs[r].saved}
    /\ \A e \in scratch.dirs : e.owner \in OpenRequests
    /\ \A r \in 1..MaxRequests :
          scratch.reqs[r].stage = "ended" =>
              \A e \in scratch.dirs :
                  e.owner # r /\ \A f \in e.files : f.by # r

\* one request has ended on an exception after saving files while another is
\* still at work on its own files
C12_Witness ==
    /\ scratch.reqs[1].stage = "ended"
    /\ scratch.reqs[1].kind = "upload"
    /\ scratch.reqs[1].exit = "exception"
    /\ scratch.reqs[1].saved = MaxSaved
    /\ scratch.reqs[2].stage = "open"
    /\ scratch.reqs[2].saved = 1
    /\ scratch.dirs = {[name |-> scratch.reqs[2].dir, owner |-> 2,
                        files |-> {[by |-> 2, n |-> 1]}]}

====
